---- MODULE Spec2Model ----
(***************************************************************************)
(* Model of the cellmeter edge service (software/edge/app).                *)
(*                                                                         *)
(* Spec      : the session store (SQLite table `session`), the request     *)
(*             handlers of main.py, the lifespan startup/shutdown and the  *)
(*             background tasks (high/low frequency loops, manual          *)
(*             benchmark wrappers) as asyncio schedules them: every step   *)
(*             is the code between two suspension points (await).          *)
(* SpecStore : the session store under every order of calls: the lifespan, *)
(*             the start and end handlers, and callers that invoke the     *)
(*             session_manager functions directly.                         *)
(* SpecModem : one get_modem_status() call after another (poller.py).      *)
(* SpecSpeed : one run_teltonika_speedtest() call after another.           *)
(* SpecPipe  : run_all_benchmarks with its probes and the metrics sink.    *)
(* SpecHf    : the high-frequency loop with its fetch in detail.           *)
(* SpecLf    : the low-frequency loop with its speed test in detail.       *)
(* SpecSsh   : concurrent callers of ssh_client.SSHClientManager.          *)
(* SpecShutdown : the lifespan and manual benchmark runs on the ssh client. *)
(***************************************************************************)
EXTENDS Integers, Sequences, FiniteSets, TLC

\* ------------------------------------------------------------------ bounds
\* Number of sessions the start handler may create in one behaviour.
MaxSessions == 2
\* Nesting depth get_modem_status() may reach (the router stops answering 401
\* to a call at this depth).
MaxDepth == 4
\* for _ in range(120): the poll budget of the speed test
PollBudget == 120
\* Distinct tokens the router's login endpoint hands out.
MaxTokens == 2
\* Low-frequency loop tasks that may exist at once (a cancelled one may still
\* be unwinding when the next session creates a new one).
MaxLf == 1
\* Manual benchmark wrappers that may be queued or running at once.
MaxManual == 1
\* Coroutines that may be inside the SSH client at once.
MaxCallers == 2
\* Channels the SSH client may establish in one behaviour.
MaxChannels == 3

\* ---------------------------------------------------------------- constants
\* Optional values (Python's X | None): None is the empty tuple, a value x is <<x>>.
None == <<>>
Some(x) == <<x>>
\* main.py: iccid placeholder used by start_session
ICCID == "8944100000000000001F"
\* session_id of a record left behind by a previous process (an id this
\* process never generates)
StaleId == MaxSessions + 1

SessionIds == 1..MaxSessions
LfIds == 1..MaxLf
ManIds == 1..MaxManual
Tokens == 1..MaxTokens

VARIABLES
    phase,            \* lifespan: "startup", "serving", "stopped"
    session,          \* rows of the SQLite table `session`
    background_tasks, \* main.background_tasks: name -> task
    hfpc,             \* position of the high-frequency loop task
    lfpc,             \* position of each low-frequency loop task
    manpc,            \* position of each manual benchmark wrapper
    held,             \* runs that acquired the benchmark lock and have not yet called release
    nextSid,          \* stands for uuid4(): the next fresh session id
    resp,             \* the last response produced by a handler or store call
    lockHist,         \* acquire calls since the lock was last free
    scen,             \* responses of the current start,start,end,end call sequence
    \* --- poller.py: the router's HTTP API
    API_TOKEN,        \* poller.API_TOKEN: None or the stored token
    mpc,              \* position of the current get_modem_status() call
    mdepth,           \* nesting depth of get_modem_status() (it calls itself)
    requests,         \* GET /modems/status requests issued by the current call
    relogins,         \* logins performed after a 401 by the current call
    answers,          \* the router's answers to those requests, in order, each
                      \* with the bearer token the request carried
    mresult,          \* what the call returned: "pending", "data", "none", "raised"
    \* --- poller.run_teltonika_speedtest
    spc,              \* position of the current run_teltonika_speedtest() call
    polls,            \* status polls made by the call
    download_mbps,    \* the local variable: Unbound until first assigned
    upload_mbps,      \* the local variable: Unbound until first assigned
    exhausted,        \* the for loop ran out (its else branch was taken)
    finished,         \* None, or the payload of the FINISHED status poll of this call
    sresult           \* how the call ended ("pending", "none", "raised", "result")
                      \* and the fields of the SpeedtestResult it returned
    ,
    \* --- main.run_all_benchmarks with its probes and the metrics sink
    ppc,              \* position of the current run_all_benchmarks() call
    probes,           \* the probe invocations of this run that returned, with their results
    sink,             \* the points handed to write_api.write during this run
    pfailed,          \* the run ended with an exception
    outputs,          \* what execute_command gave the three iperf3 sub-invocations of this run
    \* --- exceptions
    exc,              \* the exception the last poller call raised (None: it returned)
    rejected,         \* tokens the router answered 401 to and has not issued again since
    \* --- ssh_client.SSHClientManager
    connection,       \* self._connection: None, or the channel and whether it is closed
    lock,             \* self._lock: None, or the caller inside `async with self._lock`
    callers,          \* the coroutines calling connect / execute_command / disconnect
    opened,           \* channels established so far (the next channel is opened + 1)
    issued            \* execute_command calls each manual run has made in its current probe

sessionVars == <<phase, session, background_tasks, hfpc, lfpc, manpc, held, nextSid,
                 resp, lockHist, scen>>

modemCallVars == <<mpc, mdepth, requests, relogins, answers, mresult>>

\* The variables of the components other than the session store and its tasks.
speedVars == <<spc, polls, download_mbps, upload_mbps, exhausted, finished, sresult>>

pipeVars == <<ppc, probes, sink, pfailed, outputs>>

sshVars == <<connection, lock, callers, opened>>

\* The components besides the session store and its tasks.
componentVars == <<API_TOKEN, modemCallVars, speedVars, pipeVars, exc, rejected, sshVars, issued>>

otherVars == componentVars

\* What a step of get_modem_status() leaves alone, besides its own variables.
nonModemVars == <<sessionVars, speedVars, pipeVars, sshVars, issued>>
\* What a step of run_teltonika_speedtest() leaves alone.
nonSpeedVars == <<sessionVars, modemCallVars, pipeVars, sshVars, issued>>
\* What a step of the detailed run_all_benchmarks() leaves alone.
nonPipeVars == <<phase, background_tasks, hfpc, lfpc, manpc, held, nextSid, resp,
                 lockHist, scen, API_TOKEN, modemCallVars, speedVars, exc,
                 rejected, sshVars, issued>>

vars == <<sessionVars, otherVars>>

\* ------------------------------------------------------------ session store
\* models.py BaseSessionResponse: every field defaults to None
EmptyState ==
    [session_id |-> None, iccid |-> None, benchmark_in_progress |-> None,
     auto_benchmarks |-> None]

Row(sid, ic, ab, bip) ==
    [id |-> 1, session_id |-> sid, iccid |-> ic, auto_benchmarks |-> ab,
     benchmark_in_progress |-> bip]

\* Mutant: the table is created without the PRIMARY KEY on id.
table_constraint_no_key(tbl, row) == row.id = 1

\* The table constraint of setup_database: id INTEGER PRIMARY KEY CHECK (id = 1).
\* An INSERT that violates it raises sqlite3.IntegrityError.
table_constraint(tbl, row) ==
    /\ row.id = 1
    /\ \A r \in tbl : r.id # row.id

\* Mutant: INSERT OR REPLACE, which silently overwrites the existing record.
start_new_session_replace(tbl, sid, ic, ab) ==
    [status |-> 200, tbl |-> {r \in tbl : r.id # 1} \cup {Row(sid, ic, ab, FALSE)}]

\* INSERT INTO session ... VALUES (1, session_id, iccid, auto_benchmarks, 0);
\* IntegrityError becomes HTTPException(409) and nothing is written.
start_new_session(tbl, sid, ic, ab) ==
    LET row == Row(sid, ic, ab, FALSE)
    IN  IF table_constraint(tbl, row)
        THEN [status |-> 200, tbl |-> tbl \cup {row}]
        ELSE [status |-> 409, tbl |-> tbl]

\* SELECT * FROM session WHERE id = 1; fetchone()
get_session_row(tbl) ==
    IF \E r \in tbl : r.id = 1 THEN Some(CHOOSE r \in tbl : r.id = 1) ELSE None

is_session_active(tbl) == get_session_row(tbl) # None

get_session_state(tbl) ==
    LET row == get_session_row(tbl)
    IN  IF row # None
        THEN [session_id |-> Some(row[1].session_id), iccid |-> Some(row[1].iccid),
              benchmark_in_progress |-> Some(row[1].benchmark_in_progress),
              auto_benchmarks |-> Some(row[1].auto_benchmarks)]
        ELSE EmptyState

\* Mutant: the state is read after the DELETE instead of before it.
sm_end_session_read_after(tbl) ==
    LET rest == {r \in tbl : r.id # 1}
    IN  [state |-> get_session_state(rest), tbl |-> rest]

\* session_manager.end_session: read the state, DELETE FROM session WHERE id = 1,
\* return the state that was read.
sm_end_session(tbl) ==
    [state |-> get_session_state(tbl), tbl |-> {r \in tbl : r.id # 1}]

\* Mutant: the UPDATE lacks "AND benchmark_in_progress = 0".
acquire_benchmark_lock_unguarded(tbl) ==
    LET hit == {r \in tbl : r.id = 1}
    IN  [ret |-> hit # {},
         tbl |-> (tbl \ hit) \cup
                 {[r EXCEPT !.benchmark_in_progress = TRUE] : r \in hit}]

\* A variant that writes a locked record when it finds none (an upsert).
acquire_benchmark_lock_upsert(tbl) ==
    LET hit == {r \in tbl : r.id = 1 /\ r.benchmark_in_progress = FALSE}
    IN  IF \E r \in tbl : r.id = 1
        THEN [ret |-> hit # {},
              tbl |-> (tbl \ hit) \cup
                      {[r EXCEPT !.benchmark_in_progress = TRUE] : r \in hit}]
        ELSE [ret |-> TRUE, tbl |-> tbl \cup {Row(StaleId, ICCID, FALSE, TRUE)}]

\* UPDATE session SET benchmark_in_progress = 1
\*   WHERE id = 1 AND benchmark_in_progress = 0; returns rowcount > 0
acquire_benchmark_lock(tbl) ==
    LET hit == {r \in tbl : r.id = 1 /\ r.benchmark_in_progress = FALSE}
    IN  [ret |-> hit # {},
         tbl |-> (tbl \ hit) \cup
                 {[r EXCEPT !.benchmark_in_progress = TRUE] : r \in hit}]

\* A variant that flips the flag instead of clearing it.
release_benchmark_lock_toggle(tbl) ==
    {IF r.id = 1 THEN [r EXCEPT !.benchmark_in_progress = ~r.benchmark_in_progress]
     ELSE r : r \in tbl}

\* UPDATE session SET benchmark_in_progress = 0 WHERE id = 1
release_benchmark_lock(tbl) ==
    {IF r.id = 1 THEN [r EXCEPT !.benchmark_in_progress = FALSE] ELSE r : r \in tbl}

\* ------------------------------------------------------- history variables
\* lockHist: the acquire calls made since the lock was last known free.
\* <<>> after a start or an end; <<"release">> after a release that found a row.
Released == [by |-> "release", ret |-> TRUE]

NoteAcquire(tbl, by, ret) ==
    LET free == \E r \in tbl : r.id = 1 /\ r.benchmark_in_progress = FALSE
        entry == [by |-> by, ret |-> ret]
    IN  IF ~is_session_active(tbl) THEN lockHist
        ELSE IF lockHist = <<>> THEN (IF free THEN <<entry>> ELSE <<>>)
        ELSE IF Len(lockHist) < 3 /\ (Len(lockHist) < 2 \/ lockHist[1] = Released)
             THEN Append(lockHist, entry)
        ELSE lockHist

NoteRelease(tbl) == IF is_session_active(tbl) THEN <<Released>> ELSE lockHist

\* scen: the responses of the handler calls start, start, end, end made in a row,
\* beginning with a start issued while no record exists.
NoteCall(tbl, r) ==
    LET e == [op |-> r.op, status |-> r.status, sid |-> r.body.session_id]
        begin == IF r.op = "start" /\ ~is_session_active(tbl) THEN <<e>> ELSE <<>>
    IN  CASE Len(scen) = 1 /\ r.op = "start" -> Append(scen, e)
          [] Len(scen) \in {2, 3} /\ r.op = "end" -> Append(scen, e)
          [] OTHER -> begin

\* ------------------------------------------------------------------- tasks
Stages == {"ping", "iperf3", "speedtest"}
Ended == {"none", "done", "failed", "cancelled"}

HfTask == [kind |-> "hf", id |-> 1]
LfTask(l) == [kind |-> "lf", id |-> l]
ManTask(m) == [kind |-> "man", id |-> m]

NoTasks == [n \in {} |-> HfTask]

\* asyncio Task.cancel(): a finished task is left alone; a task suspended in an
\* await gets CancelledError at that await. The high-frequency loop has no
\* handler around its awaits, so it just ends.
cancel_hf(pc) == IF pc \in {"wait", "fetch"} THEN "cancelled" ELSE pc

\* The low-frequency loop is either in its pacing sleep (outside the try) or
\* inside run_all_benchmarks (inside try/finally: the finally still has to run).
cancel_lf(pc) ==
    IF pc = "wait" THEN "cancelled"
    ELSE IF pc \in Stages THEN "unwind"
    ELSE pc

\* Mutant: the tasks are cancelled but their registry entries are kept.
CancelAll_keep_entries ==
    /\ hfpc' = IF \E n \in DOMAIN background_tasks : background_tasks[n] = HfTask
               THEN cancel_hf(hfpc) ELSE hfpc
    /\ lfpc' = [l \in LfIds |->
                  IF \E n \in DOMAIN background_tasks : background_tasks[n] = LfTask(l)
                  THEN cancel_lf(lfpc[l]) ELSE lfpc[l]]
    /\ background_tasks' = background_tasks

\* for task_name, task in list(background_tasks.items()): task.cancel(); del ...
CancelAll ==
    /\ hfpc' = IF \E n \in DOMAIN background_tasks : background_tasks[n] = HfTask
               THEN cancel_hf(hfpc) ELSE hfpc
    /\ lfpc' = [l \in LfIds |->
                  IF \E n \in DOMAIN background_tasks : background_tasks[n] = LfTask(l)
                  THEN cancel_lf(lfpc[l]) ELSE lfpc[l]]
    /\ background_tasks' = NoTasks

\* ---------------------------------------------------------------- lifespan
\* A local variable that has not been assigned yet (reading it raises
\* UnboundLocalError); an assigned one holds <<value>>.
Unbound == <<>>

SpeedOutcome(kind) == [kind |-> kind, download_mbps |-> None, upload_mbps |-> None]

\* ssh_client = SSHClientManager(): no connection, the lock free, nobody calling.
Callers == 1..MaxCallers

CallerIdle == [pc |-> "idle", op |-> "none", on |-> 0, runs |-> 0, result |-> "none"]

SshIdle ==
    /\ connection = None
    /\ lock = None
    /\ callers = [c \in Callers |-> CallerIdle]
    /\ opened = 0
    /\ issued = [m \in ManIds |-> 0]

PipeIdle ==
    /\ ppc = "idle"
    /\ probes = <<>>
    /\ outputs = <<>>
    /\ sink = <<>>
    /\ pfailed = FALSE

SpeedIdle ==
    /\ PipeIdle
    /\ SshIdle
    /\ exc = None
    /\ rejected = {}
    /\ spc = "idle"
    /\ polls = 0
    /\ download_mbps = Unbound
    /\ upload_mbps = Unbound
    /\ exhausted = FALSE
    /\ finished = None
    /\ sresult = SpeedOutcome("pending")

ModemIdle ==
    /\ SpeedIdle
    /\ API_TOKEN = None
    /\ mpc = "idle"
    /\ mdepth = 0
    /\ requests = 0
    /\ relogins = 0
    /\ answers = <<>>
    /\ mresult = "pending"

Init ==
    /\ ModemIdle
    /\ phase = "startup"
    /\ session \in {{}} \cup {{Row(StaleId, ICCID, ab, bip)} : ab \in BOOLEAN, bip \in BOOLEAN}
    /\ background_tasks = NoTasks
    /\ hfpc = "none"
    /\ lfpc = [l \in LfIds |-> "none"]
    /\ manpc = [m \in ManIds |-> "none"]
    /\ held = {}
    /\ nextSid = 1
    /\ resp = [op |-> "none", status |-> 0, body |-> EmptyState]
    /\ lockHist = <<>>
    /\ scen = <<>>

Response(op, status, body) == [op |-> op, status |-> status, body |-> body]

\* Mutant: the lifespan does not end the session it finds.
Startup_keep_stale ==
    /\ UNCHANGED componentVars
    /\ phase = "startup"
    /\ phase' = "serving"
    /\ UNCHANGED <<session, background_tasks, hfpc, lfpc, manpc, held, nextSid, resp,
                   lockHist, scen>>

\* lifespan, before yield: setup_database(); a stale session is ended by
\* session_manager.end_session(), which returns the record it deleted.
Startup ==
    /\ UNCHANGED componentVars
    /\ phase = "startup"
    /\ resp' = IF is_session_active(session)
               THEN Response("sm_end", 200, sm_end_session(session).state)
               ELSE resp
    /\ session' = IF is_session_active(session) THEN sm_end_session(session).tbl
                  ELSE session
    /\ phase' = "serving"
    /\ UNCHANGED <<background_tasks, hfpc, lfpc, manpc, held, nextSid, lockHist, scen>>

\* lifespan, after yield: cancel the tasks, end the session.
Shutdown ==
    /\ UNCHANGED otherVars
    /\ phase = "serving"
    /\ CancelAll
    /\ session' = IF is_session_active(session) THEN sm_end_session(session).tbl
                  ELSE session
    /\ lockHist' = IF is_session_active(session) THEN <<>> ELSE lockHist
    /\ phase' = "stopped"
    /\ UNCHANGED <<manpc, held, nextSid, resp, scen>>

\* ----------------------------------------------------------------- handlers
FreeLf == {l \in LfIds : lfpc[l] \in Ended}
FreeMan == {m \in ManIds : manpc[m] = "none"}

\* Mutant: the low-frequency loop is created whatever auto_benchmarks says.
start_session_always_lf(auto_benchmarks) ==
    /\ UNCHANGED otherVars
    /\ phase = "serving"
    /\ IF is_session_active(session)
       THEN /\ resp' = Response("start", 409, EmptyState)
            /\ UNCHANGED <<session, background_tasks, hfpc, lfpc, nextSid, lockHist>>
       ELSE LET session_id == nextSid
                r == start_new_session(session, session_id, ICCID, auto_benchmarks)
                l == CHOOSE x \in FreeLf : \A y \in FreeLf : x <= y
            IN  /\ nextSid <= MaxSessions
                /\ FreeLf # {}
                /\ r.status = 200
                /\ nextSid' = nextSid + 1
                /\ session' = r.tbl
                /\ hfpc' = "wait"
                /\ lfpc' = [lfpc EXCEPT ![l] = "wait"]
                /\ background_tasks' =
                      [n \in {"high_frequency_task", "low_frequency_task"} |->
                         IF n = "high_frequency_task" THEN HfTask ELSE LfTask(l)]
                /\ lockHist' = <<>>
                /\ resp' = Response("start", 200,
                             [session_id |-> Some(session_id), iccid |-> Some(ICCID),
                              benchmark_in_progress |-> Some(FALSE),
                              auto_benchmarks |-> Some(auto_benchmarks)])
    /\ scen' = NoteCall(session, resp')
    /\ UNCHANGED <<phase, manpc, held>>

\* POST /sessions/start
start_session(auto_benchmarks) ==
    /\ UNCHANGED otherVars
    /\ phase = "serving"
    /\ IF is_session_active(session)
       THEN /\ resp' = Response("start", 409, EmptyState)
            /\ UNCHANGED <<session, background_tasks, hfpc, lfpc, nextSid, lockHist>>
       ELSE LET session_id == nextSid
                r == start_new_session(session, session_id, ICCID, auto_benchmarks)
            IN  /\ nextSid <= MaxSessions
                /\ auto_benchmarks => FreeLf # {}
                /\ nextSid' = nextSid + 1
                /\ session' = r.tbl
                /\ IF r.status = 409
                   THEN /\ resp' = Response("start", 409, EmptyState)
                        /\ UNCHANGED <<background_tasks, hfpc, lfpc, lockHist>>
                   ELSE /\ hfpc' = "wait"
                        /\ IF auto_benchmarks
                           THEN LET l == CHOOSE x \in FreeLf : \A y \in FreeLf : x <= y
                                IN  /\ lfpc' = [lfpc EXCEPT ![l] = "wait"]
                                    /\ background_tasks' =
                                         [n \in {"high_frequency_task", "low_frequency_task"} |->
                                            IF n = "high_frequency_task" THEN HfTask
                                            ELSE LfTask(l)]
                           ELSE /\ lfpc' = lfpc
                                /\ background_tasks' =
                                     [n \in DOMAIN background_tasks \cup {"high_frequency_task"} |->
                                        IF n = "high_frequency_task" THEN HfTask
                                        ELSE background_tasks[n]]
                        /\ lockHist' = <<>>
                        /\ resp' = Response("start", 200,
                                     [session_id |-> Some(session_id), iccid |-> Some(ICCID),
                                      benchmark_in_progress |-> Some(FALSE),
                                      auto_benchmarks |-> Some(auto_benchmarks)])
    /\ scen' = NoteCall(session, resp')
    /\ UNCHANGED <<phase, manpc, held>>

\* POST /sessions/end
end_session ==
    /\ UNCHANGED otherVars
    /\ phase = "serving"
    /\ IF ~is_session_active(session)
       THEN /\ resp' = Response("end", 404, EmptyState)
            /\ UNCHANGED <<session, background_tasks, hfpc, lfpc, lockHist>>
       ELSE LET e == sm_end_session(session)
            IN  /\ session' = e.tbl
                /\ CancelAll
                /\ lockHist' = <<>>
                /\ resp' = Response("end", 200, e.state)
    /\ scen' = NoteCall(session, resp')
    /\ UNCHANGED <<phase, manpc, held, nextSid>>

\* Mutant: the handler does not test is_session_active() first.
trigger_manual_benchmarks_no_active_check ==
    /\ UNCHANGED otherVars
    /\ phase = "serving"
    /\ LET a == acquire_benchmark_lock(session)
       IN  /\ session' = a.tbl
           /\ lockHist' = NoteAcquire(session, "manual", a.ret)
           /\ IF ~a.ret
              THEN /\ resp' = Response("trigger", 409, EmptyState)
                   /\ UNCHANGED <<manpc, held>>
              ELSE /\ FreeMan # {}
                   /\ LET m == CHOOSE x \in FreeMan : \A y \in FreeMan : x <= y
                      IN  /\ manpc' = [manpc EXCEPT ![m] = "queued"]
                          /\ held' = held \cup {ManTask(m)}
                   /\ resp' = Response("trigger", 202, EmptyState)
    /\ UNCHANGED <<phase, background_tasks, hfpc, lfpc, nextSid, scen>>

\* POST /benchmarks/run
trigger_manual_benchmarks ==
    /\ UNCHANGED otherVars
    /\ phase = "serving"
    /\ IF ~is_session_active(session)
       THEN /\ resp' = Response("trigger", 404, EmptyState)
            /\ UNCHANGED <<session, manpc, held, lockHist>>
       ELSE LET a == acquire_benchmark_lock(session)
            IN  /\ session' = a.tbl
                /\ lockHist' = NoteAcquire(session, "manual", a.ret)
                /\ IF ~a.ret
                   THEN /\ resp' = Response("trigger", 409, EmptyState)
                        /\ UNCHANGED <<manpc, held>>
                   ELSE /\ FreeMan # {}
                        /\ LET m == CHOOSE x \in FreeMan : \A y \in FreeMan : x <= y
                           IN  /\ manpc' = [manpc EXCEPT ![m] = "queued"]
                               /\ held' = held \cup {ManTask(m)}
                        /\ resp' = Response("trigger", 202, EmptyState)
    /\ UNCHANGED <<phase, background_tasks, hfpc, lfpc, nextSid, scen>>

\* ------------------------------------------------------- background tasks
\* finally: session_manager.release_benchmark_lock()
Release(task) ==
    /\ session' = release_benchmark_lock(session)
    /\ held' = held \ {task}
    /\ lockHist' = NoteRelease(session)

NextStage(pc) == IF pc = "ping" THEN "iperf3" ELSE "speedtest"

\* high_frequency_polling_loop: while is_session_active(): ... await get_modem_status()
HfIterate ==
    /\ UNCHANGED otherVars
    /\ hfpc = "wait"
    /\ hfpc' = IF is_session_active(session) THEN "fetch" ELSE "done"
    /\ UNCHANGED <<phase, session, background_tasks, lfpc, manpc, held, nextSid,
                   resp, lockHist, scen>>

\* get_modem_status() returns: no data -> sleep; data -> write_state_metrics is
\* called with three of its five required arguments (TypeError); or it raises.
HfFetch ==
    /\ UNCHANGED otherVars
    /\ hfpc = "fetch"
    /\ \E outcome \in {"none", "data", "raise"} :
          hfpc' = IF outcome = "none" THEN "wait" ELSE "failed"
    /\ UNCHANGED <<phase, session, background_tasks, lfpc, manpc, held, nextSid,
                   resp, lockHist, scen>>

\* A variant whose skipped cycle runs the release of the finally clause.
LfIterate_release_on_skip(l) ==
    /\ UNCHANGED otherVars
    /\ lfpc[l] = "wait"
    /\ IF ~is_session_active(session)
       THEN /\ lfpc' = [lfpc EXCEPT ![l] = "done"]
            /\ UNCHANGED <<session, held, lockHist>>
       ELSE LET a == acquire_benchmark_lock(session)
                state == get_session_state(a.tbl)
            IN  IF ~a.ret
                THEN /\ session' = release_benchmark_lock(session)
                     /\ lockHist' = NoteRelease(session)
                     /\ UNCHANGED <<held, lfpc>>
                ELSE IF state.session_id = None
                THEN /\ session' = release_benchmark_lock(a.tbl)
                     /\ lockHist' = <<Released>>
                     /\ UNCHANGED <<held, lfpc>>
                ELSE /\ session' = a.tbl
                     /\ lockHist' = NoteAcquire(session, "lf", TRUE)
                     /\ held' = held \cup {LfTask(l)}
                     /\ lfpc' = [lfpc EXCEPT ![l] = "ping"]
    /\ UNCHANGED <<phase, background_tasks, hfpc, manpc, nextSid, resp, scen>>

\* low_frequency_benchmark_loop: one pass from the while test to the first await.
LfIterate(l) ==
    /\ UNCHANGED otherVars
    /\ lfpc[l] = "wait"
    /\ IF ~is_session_active(session)
       THEN /\ lfpc' = [lfpc EXCEPT ![l] = "done"]
            /\ UNCHANGED <<session, held, lockHist>>
       ELSE LET a == acquire_benchmark_lock(session)
                state == get_session_state(a.tbl)
            IN  IF ~a.ret
                THEN \* lock held elsewhere: skip this cycle, sleep
                     /\ lockHist' = NoteAcquire(session, "lf", FALSE)
                     /\ UNCHANGED <<session, held, lfpc>>
                ELSE IF state.session_id = None
                THEN \* run_all_benchmarks returns at once; finally; sleep
                     /\ session' = release_benchmark_lock(a.tbl)
                     /\ lockHist' = <<Released>>
                     /\ UNCHANGED <<held, lfpc>>
                ELSE /\ session' = a.tbl
                     /\ lockHist' = NoteAcquire(session, "lf", TRUE)
                     /\ held' = held \cup {LfTask(l)}
                     /\ lfpc' = [lfpc EXCEPT ![l] = "ping"]
    /\ UNCHANGED <<phase, background_tasks, hfpc, manpc, nextSid, resp, scen>>

\* Mutant: the pipeline is awaited without try/finally, so an exception skips
\* the release.
LfProbe_no_finally(l) ==
    /\ UNCHANGED otherVars
    /\ lfpc[l] \in Stages
    /\ \E outcome \in {"ok", "raise"} :
         IF outcome = "ok" /\ lfpc[l] # "speedtest"
         THEN /\ lfpc' = [lfpc EXCEPT ![l] = NextStage(lfpc[l])]
              /\ UNCHANGED <<session, held, lockHist>>
         ELSE IF outcome = "ok"
         THEN /\ Release(LfTask(l))
              /\ lfpc' = [lfpc EXCEPT ![l] = "wait"]
         ELSE /\ lfpc' = [lfpc EXCEPT ![l] = "failed"]
              /\ UNCHANGED <<session, held, lockHist>>
    /\ UNCHANGED <<phase, background_tasks, hfpc, manpc, nextSid, resp, scen>>

\* run_all_benchmarks inside the loop: the awaited probe (and its sink write)
\* completes or raises; after the last probe, or on an exception, finally runs.
LfProbe(l) ==
    /\ UNCHANGED otherVars
    /\ lfpc[l] \in Stages
    /\ \E outcome \in {"ok", "raise"} :
         IF outcome = "ok" /\ lfpc[l] # "speedtest"
         THEN /\ lfpc' = [lfpc EXCEPT ![l] = NextStage(lfpc[l])]
              /\ UNCHANGED <<session, held, lockHist>>
         ELSE /\ Release(LfTask(l))
              /\ lfpc' = [lfpc EXCEPT ![l] = IF outcome = "ok" THEN "wait" ELSE "failed"]
    /\ UNCHANGED <<phase, background_tasks, hfpc, manpc, nextSid, resp, scen>>

\* CancelledError delivered inside the try: finally runs, the task ends.
LfUnwind(l) ==
    /\ UNCHANGED otherVars
    /\ lfpc[l] = "unwind"
    /\ Release(LfTask(l))
    /\ lfpc' = [lfpc EXCEPT ![l] = "cancelled"]
    /\ UNCHANGED <<phase, background_tasks, hfpc, manpc, nextSid, resp, scen>>

\* wrapper() of trigger_manual_benchmarks starts: run_all_benchmarks reads the
\* state and returns at once when there is no session.
ManStart(m) ==
    /\ UNCHANGED otherVars
    /\ manpc[m] = "queued"
    /\ IF get_session_state(session).session_id = None
       THEN /\ Release(ManTask(m))
            /\ manpc' = [manpc EXCEPT ![m] = "none"]
       ELSE /\ manpc' = [manpc EXCEPT ![m] = "ping"]
            /\ UNCHANGED <<session, held, lockHist>>
    /\ UNCHANGED <<phase, background_tasks, hfpc, lfpc, nextSid, resp, scen>>

ManProbe(m) ==
    /\ UNCHANGED otherVars
    /\ manpc[m] \in Stages
    /\ \E outcome \in {"ok", "raise"} :
         IF outcome = "ok" /\ manpc[m] # "speedtest"
         THEN /\ manpc' = [manpc EXCEPT ![m] = NextStage(manpc[m])]
              /\ UNCHANGED <<session, held, lockHist>>
         ELSE /\ Release(ManTask(m))
              /\ manpc' = [manpc EXCEPT ![m] = "none"]
    /\ UNCHANGED <<phase, background_tasks, hfpc, lfpc, nextSid, resp, scen>>

Next ==
    \/ Startup
    \/ Shutdown
    \/ \E ab \in BOOLEAN : start_session(ab)
    \/ end_session
    \/ trigger_manual_benchmarks
    \/ HfIterate
    \/ HfFetch
    \/ \E l \in LfIds : LfIterate(l)
    \/ \E l \in LfIds : LfProbe(l)
    \/ \E l \in LfIds : LfUnwind(l)
    \/ \E m \in ManIds : ManStart(m)
    \/ \E m \in ManIds : ManProbe(m)

Spec == Init /\ [][Next]_vars

\* The event loop runs every task that is ready: an awaited probe completes,
\* raises or times out, a cancelled task gets its CancelledError, and a queued
\* background wrapper is started once the response is sent.
SpecFair ==
    /\ Spec
    /\ \A l \in LfIds : WF_vars(LfProbe(l)) /\ WF_vars(LfUnwind(l))
    /\ \A m \in ManIds : WF_vars(ManStart(m)) /\ WF_vars(ManProbe(m))

\* ------------------------------------------- direct callers of the store
\* Callers that use the session_manager functions directly, in any order.
StoreStart(sid, auto_benchmarks) ==
    /\ UNCHANGED otherVars
    /\ LET r == start_new_session(session, sid, ICCID, auto_benchmarks)
       IN  /\ session' = r.tbl
           /\ resp' = Response("sm_start", r.status,
                        IF r.status = 200
                        THEN [session_id |-> Some(sid), iccid |-> Some(ICCID),
                              benchmark_in_progress |-> Some(FALSE),
                              auto_benchmarks |-> Some(auto_benchmarks)]
                        ELSE EmptyState)
           /\ lockHist' = IF r.status = 200 THEN <<>> ELSE lockHist
    /\ UNCHANGED <<phase, background_tasks, hfpc, lfpc, manpc, held, nextSid, scen>>

StoreEnd ==
    /\ UNCHANGED otherVars
    /\ LET e == sm_end_session(session)
       IN  /\ session' = e.tbl
           /\ resp' = Response("sm_end", 200, e.state)
    /\ lockHist' = IF is_session_active(session) THEN <<>> ELSE lockHist
    /\ UNCHANGED <<phase, background_tasks, hfpc, lfpc, manpc, held, nextSid, scen>>

\* The caller keeps what acquire_benchmark_lock() returned (True or False)
\* and the state of the store after it.
StoreAcquire ==
    /\ UNCHANGED otherVars
    /\ LET a == acquire_benchmark_lock(session)
       IN  /\ session' = a.tbl
           /\ lockHist' = NoteAcquire(session, "store", a.ret)
           /\ resp' = Response(IF a.ret THEN "sm_acquire:True" ELSE "sm_acquire:False",
                               0, get_session_state(a.tbl))
    /\ UNCHANGED <<phase, background_tasks, hfpc, lfpc, manpc, held, nextSid, scen>>

StoreRelease ==
    /\ UNCHANGED otherVars
    /\ session' = release_benchmark_lock(session)
    /\ lockHist' = NoteRelease(session)
    /\ UNCHANGED <<phase, background_tasks, hfpc, lfpc, manpc, held, nextSid, resp, scen>>

NextStore ==
    \/ Startup
    \/ Shutdown
    \/ \E ab \in BOOLEAN : start_session(ab)
    \/ end_session
    \/ \E sid \in SessionIds, ab \in BOOLEAN : StoreStart(sid, ab)
    \/ StoreEnd
    \/ StoreAcquire
    \/ StoreRelease

SpecStore == Init /\ [][NextStore]_vars

\* ------------------------------------------------- poller.py: router client
\* The variables of the session store and its tasks, at rest.
SessionIdle ==
    /\ phase = "startup"
    /\ session = {}
    /\ background_tasks = NoTasks
    /\ hfpc = "none"
    /\ lfpc = [l \in LfIds |-> "none"]
    /\ manpc = [m \in ManIds |-> "none"]
    /\ held = {}
    /\ nextSid = 1
    /\ resp = [op |-> "none", status |-> 0, body |-> EmptyState]
    /\ lockHist = <<>>
    /\ scen = <<>>

\* What POST /api/login can do: answer with a token; answer successfully but
\* without a token; fail in transport (httpx.RequestError, caught and logged);
\* answer with an error status (raise_for_status raises httpx.HTTPStatusError,
\* which is not a RequestError and is not caught).
LoginOutcomes == {"token", "no_token", "transport", "http_error"}

\* The exception a login attempt leaves its caller with, if any.
LoginExc(outcome) == IF outcome = "http_error" THEN Some("HTTPStatusError") ELSE None

\* A token the router has just issued is valid again.
Issued(outcome, t) == IF outcome = "token" THEN rejected \ {t} ELSE rejected

\* get_teltonika_token(): the token afterwards and whether the call raised.
get_teltonika_token(token, outcome, t) ==
    [token |-> IF outcome = "token" THEN Some(t) ELSE token,
     raised |-> outcome = "http_error"]

\* What GET /api/v1/modems/status can do: 401; a valid body; a body that does
\* not validate (pydantic ValidationError); another error status
\* (HTTPStatusError); a transport failure (RequestError, caught: None).
StatusAnswers == {"401", "ok", "bad_body", "http_error", "transport"}

ModemReturn(result) ==
    /\ mpc' = "done"
    /\ mresult' = result

\* get_modem_status() is called (by the high-frequency loop).
ModemCall ==
    /\ mpc \in {"idle", "done"}
    /\ mdepth' = 1
    /\ requests' = 0
    /\ relogins' = 0
    /\ answers' = <<>>
    /\ mresult' = "pending"
    /\ mpc' = IF API_TOKEN = None THEN "login" ELSE "request"
    /\ exc' = None
    /\ UNCHANGED <<nonModemVars, API_TOKEN, rejected>>

\* A variant that goes on to the request whether or not the login gave a token.
ModemLogin_no_token_check ==
    /\ mpc = "login"
    /\ \E outcome \in LoginOutcomes, t \in Tokens :
         LET g == get_teltonika_token(API_TOKEN, outcome, t)
         IN  /\ API_TOKEN' = g.token
             /\ exc' = LoginExc(outcome)
             /\ rejected' = Issued(outcome, t)
             /\ IF g.raised THEN ModemReturn("raised")
                ELSE mpc' = "request" /\ mresult' = mresult
    /\ UNCHANGED <<nonModemVars, mdepth, requests, relogins, answers>>

\* if not API_TOKEN: await get_teltonika_token(); if not API_TOKEN: return None
ModemLogin ==
    /\ mpc = "login"
    /\ \E outcome \in LoginOutcomes, t \in Tokens :
         LET g == get_teltonika_token(API_TOKEN, outcome, t)
         IN  /\ API_TOKEN' = g.token
             /\ exc' = LoginExc(outcome)
             /\ rejected' = Issued(outcome, t)
             /\ IF g.raised THEN ModemReturn("raised")
                ELSE IF g.token = None THEN ModemReturn("none")
                ELSE mpc' = "request" /\ mresult' = mresult
    /\ UNCHANGED <<nonModemVars, mdepth, requests, relogins, answers>>

\* response = await client.get(... Authorization: Bearer API_TOKEN ...)
ModemRequest ==
    /\ mpc = "request"
    /\ \E a \in StatusAnswers :
         /\ a = "401" => mdepth < MaxDepth
         /\ requests' = requests + 1
         /\ answers' = Append(answers, [answer |-> a, bearer |-> API_TOKEN[1]])
         /\ CASE a = "401" -> mpc' = "relogin" /\ mresult' = mresult
              [] a = "ok" -> ModemReturn("data")
              [] a = "transport" -> ModemReturn("none")
              [] OTHER -> ModemReturn("raised")
         /\ exc' = CASE a = "bad_body" -> Some("ValidationError")
                      [] a = "http_error" -> Some("HTTPStatusError")
                      [] OTHER -> None
         /\ rejected' = IF a = "401" THEN rejected \cup {API_TOKEN[1]} ELSE rejected
    /\ UNCHANGED <<nonModemVars, API_TOKEN, mdepth, relogins>>

\* if response.status_code == 401: await get_teltonika_token();
\*     return await get_modem_status()
ModemRelogin ==
    /\ mpc = "relogin"
    /\ \E outcome \in LoginOutcomes, t \in Tokens :
         LET g == get_teltonika_token(API_TOKEN, outcome, t)
         IN  /\ API_TOKEN' = g.token
             /\ relogins' = relogins + 1
             /\ exc' = LoginExc(outcome)
             /\ rejected' = Issued(outcome, t)
             /\ IF g.raised
                THEN ModemReturn("raised") /\ mdepth' = mdepth
                ELSE /\ mdepth' = mdepth + 1
                     /\ mpc' = IF g.token = None THEN "login" ELSE "request"
                     /\ mresult' = mresult
    /\ UNCHANGED <<nonModemVars, requests, answers>>

InitModem ==
    /\ SessionIdle
    /\ SpeedIdle
    /\ API_TOKEN \in {None} \cup {Some(t) : t \in Tokens}
    /\ mpc = "idle"
    /\ mdepth = 0
    /\ requests = 0
    /\ relogins = 0
    /\ answers = <<>>
    /\ mresult = "pending"

NextModem ==
    \/ ModemCall
    \/ ModemLogin
    \/ ModemRequest
    \/ ModemRelogin

SpecModem == InitModem /\ [][NextModem]_vars

\* ------------------------ high_frequency_polling_loop with its fetch in detail
\* modem_data = await poller.get_modem_status(): the call starts
HfCall ==
    /\ hfpc = "fetch"
    /\ mpc = "idle"
    /\ ModemCall

\* ... and proceeds while the loop task is suspended in it
HfLogin == hfpc = "fetch" /\ ModemLogin

HfRequest == hfpc = "fetch" /\ ModemRequest

HfRelogin == hfpc = "fetch" /\ ModemRelogin

\* The call is over. None: sleep, then the next iteration. Data:
\* write_state_metrics(state.session_id, state.iccid, modem_data) lacks two
\* required arguments (TypeError). An exception out of get_modem_status is not
\* caught by the loop either.
HfResume ==
    /\ hfpc = "fetch"
    /\ mpc = "done"
    /\ mpc' = "idle"
    /\ hfpc' = IF mresult = "none" THEN "wait" ELSE "failed"
    /\ UNCHANGED <<phase, session, background_tasks, lfpc, manpc, held, nextSid, resp,
                   lockHist, scen, API_TOKEN, mdepth, requests, relogins, answers,
                   mresult, speedVars, pipeVars, exc, rejected, sshVars, issued>>

\* A session is active, its high-frequency loop is about to take its first turn.
InitHf ==
    /\ SpeedIdle
    /\ API_TOKEN \in {None} \cup {Some(t) : t \in Tokens}
    /\ mpc = "idle"
    /\ mdepth = 0
    /\ requests = 0
    /\ relogins = 0
    /\ answers = <<>>
    /\ mresult = "pending"
    /\ phase = "serving"
    /\ session = {Row(1, ICCID, FALSE, FALSE)}
    /\ background_tasks = [n \in {"high_frequency_task"} |-> HfTask]
    /\ hfpc = "wait"
    /\ lfpc = [l \in LfIds |-> "none"]
    /\ manpc = [m \in ManIds |-> "none"]
    /\ held = {}
    /\ nextSid = 2
    /\ resp = [op |-> "start", status |-> 200, body |-> get_session_state(session)]
    /\ lockHist = <<>>
    /\ scen = <<>>

NextHf ==
    \/ HfIterate
    \/ HfCall
    \/ HfLogin
    \/ HfRequest
    \/ HfRelogin
    \/ HfResume
    \/ end_session

SpecHf == InitHf /\ [][NextHf]_vars

\* ------------------------------------- poller.py: run_teltonika_speedtest
\* avgDownloadSpeed / avgUploadSpeed of a status payload: absent, or bits/s.
SpeedFields == {None, Some(0), Some(5000000), Some(9000000)}

\* int(data["data"].get(key, 0)) / 1_000_000
Mbps(field) == (IF field = None THEN 0 ELSE field[1]) \div 1000000

SpeedStates == {"TESTING_DOWNLOAD", "TESTING_UPLOAD", "NOT_RUNNING", "FINISHED", "OTHER"}

\* Step 3 of run_teltonika_speedtest, on the locals as they are:
\*   if download_mbps is not None or upload_mbps is not None:
\*       return SpeedtestResult(download_mbps=..., upload_mbps=...)
\* Neither local is ever None: reading an unassigned one raises
\* UnboundLocalError, and an assigned download_mbps short-circuits the test.
speedtest_step3(dl, ul) ==
    IF dl = Unbound THEN SpeedOutcome("raised")
    ELSE IF ul = Unbound THEN SpeedOutcome("raised")
    ELSE [kind |-> "result", download_mbps |-> dl, upload_mbps |-> ul]

SpeedReturn(outcome) ==
    /\ spc' = "done"
    /\ sresult' = outcome

\* run_teltonika_speedtest() is called.
SpeedCall ==
    /\ spc \in {"idle", "done"}
    /\ polls' = 0
    /\ download_mbps' = Unbound
    /\ upload_mbps' = Unbound
    /\ exhausted' = FALSE
    /\ finished' = None
    /\ sresult' = SpeedOutcome("pending")
    /\ spc' = IF API_TOKEN = None THEN "login" ELSE "start"
    /\ exc' = None
    /\ UNCHANGED <<nonSpeedVars, API_TOKEN, rejected>>

\* if not API_TOKEN: await get_teltonika_token(); if not API_TOKEN: return None
SpeedLogin ==
    /\ spc = "login"
    /\ \E outcome \in LoginOutcomes, t \in Tokens :
         LET g == get_teltonika_token(API_TOKEN, outcome, t)
         IN  /\ API_TOKEN' = g.token
             /\ exc' = LoginExc(outcome)
             /\ rejected' = Issued(outcome, t)
             /\ IF g.raised THEN SpeedReturn(SpeedOutcome("raised"))
                ELSE IF g.token = None THEN SpeedReturn(SpeedOutcome("none"))
                ELSE spc' = "start" /\ sresult' = sresult
    /\ UNCHANGED <<nonSpeedVars, polls, download_mbps, upload_mbps, exhausted, finished>>

\* Step 1: POST /api/speedtest/actions/start. 409: already running, monitor
\* it; another non-success status: return None; a transport error propagates.
SpeedStart ==
    /\ spc = "start"
    /\ \E answer \in {"ok", "409", "error", "transport"} :
         /\ CASE answer \in {"ok", "409"} -> spc' = "poll" /\ sresult' = sresult
              [] answer = "error" -> SpeedReturn(SpeedOutcome("none"))
              [] OTHER -> SpeedReturn(SpeedOutcome("raised"))
         /\ exc' = IF answer = "transport" THEN Some("RequestError") ELSE None
    /\ UNCHANGED <<nonSpeedVars, API_TOKEN, rejected, polls, download_mbps, upload_mbps,
                   exhausted, finished>>

\* Step 2, one iteration of the for loop: sleep, GET status, look at the
\* state; and, when the loop ends with this iteration, Step 3.
SpeedPoll ==
    /\ spc = "poll"
    /\ polls < PollBudget
    /\ polls' = polls + 1
    /\ \/ \* the status request raises (transport error, no JSON, no "state")
          /\ SpeedReturn(SpeedOutcome("raised"))
          /\ \E e \in {"RequestError", "JSONDecodeError", "KeyError"} : exc' = Some(e)
          /\ UNCHANGED <<download_mbps, upload_mbps, exhausted, finished>>
       \/ \E state \in SpeedStates, d \in SpeedFields, u \in SpeedFields :
            LET dl == CASE state = "TESTING_DOWNLOAD" /\ Mbps(d) > 0 -> Some(Mbps(d))
                        [] state = "FINISHED" -> Some(Mbps(d))
                        [] OTHER -> download_mbps
                ul == CASE state = "TESTING_UPLOAD" /\ Mbps(u) > 0 -> Some(Mbps(u))
                        [] state = "FINISHED" -> Some(Mbps(u))
                        [] OTHER -> upload_mbps
                break == state \in {"NOT_RUNNING", "FINISHED"}
            IN  /\ download_mbps' = dl
                /\ upload_mbps' = ul
                /\ finished' = IF state = "FINISHED"
                               THEN Some([avgDownloadSpeed |-> d, avgUploadSpeed |-> u])
                               ELSE finished
                /\ exhausted' = (~break /\ polls' = PollBudget)
                /\ IF break \/ polls' = PollBudget
                   THEN /\ SpeedReturn(speedtest_step3(dl, ul))
                        /\ exc' = IF speedtest_step3(dl, ul).kind = "raised"
                                  THEN Some("UnboundLocalError") ELSE None
                   ELSE spc' = spc /\ sresult' = sresult /\ exc' = exc
    /\ UNCHANGED <<nonSpeedVars, API_TOKEN, rejected>>

InitSpeed ==
    /\ SessionIdle
    /\ API_TOKEN \in {None} \cup {Some(t) : t \in Tokens}
    /\ mpc = "idle"
    /\ mdepth = 0
    /\ requests = 0
    /\ relogins = 0
    /\ answers = <<>>
    /\ mresult = "pending"
    /\ SpeedIdle

NextSpeed ==
    \/ SpeedCall
    \/ SpeedLogin
    \/ SpeedStart
    \/ SpeedPoll

SpecSpeed == InitSpeed /\ [][NextSpeed]_vars

\* --------------- low_frequency_benchmark_loop with its speed test in detail
\* ping_data = await run_ssh_ping() ..., iperf3_data = await run_ssh_iperf3() ...
LfSshProbe(l) ==
    /\ lfpc[l] \in {"ping", "iperf3"}
    /\ LfProbe(l)

\* speedtest_data = await run_teltonika_speedtest(): the call starts
LfSpeedCall(l) ==
    /\ lfpc[l] = "speedtest"
    /\ spc = "idle"
    /\ SpeedCall

\* ... and proceeds while the loop task is suspended in it
LfSpeedLogin(l) == lfpc[l] = "speedtest" /\ SpeedLogin

LfSpeedStart(l) == lfpc[l] = "speedtest" /\ SpeedStart

LfSpeedPoll(l) == lfpc[l] = "speedtest" /\ SpeedPoll

\* The call is over. An exception passes through run_all_benchmarks and the
\* try/finally of the loop (which has no except clause): the lock is released
\* and the task ends. Otherwise a result is written (the write may raise),
\* the lock is released and the loop sleeps.
LfSpeedResume(l) ==
    /\ lfpc[l] = "speedtest"
    /\ spc = "done"
    /\ spc' = "idle"
    /\ Release(LfTask(l))
    /\ \E write \in {"ok", "raise"} :
          /\ write = "raise" => sresult.kind = "result"
          /\ lfpc' = [lfpc EXCEPT ![l] = IF sresult.kind = "raised" \/ write = "raise"
                                          THEN "failed" ELSE "wait"]
    /\ UNCHANGED <<phase, background_tasks, hfpc, manpc, nextSid, resp, scen,
                   API_TOKEN, modemCallVars, polls, download_mbps, upload_mbps,
                   exhausted, finished, sresult, pipeVars, exc, rejected, sshVars, issued>>

\* A session with auto_benchmarks is active, its loops have just been created.
InitLf ==
    /\ ModemIdle
    /\ phase = "serving"
    /\ session = {Row(1, ICCID, TRUE, FALSE)}
    /\ background_tasks = [n \in {"high_frequency_task", "low_frequency_task"} |->
                             IF n = "high_frequency_task" THEN HfTask ELSE LfTask(1)]
    /\ hfpc = "wait"
    /\ lfpc = [l \in LfIds |-> IF l = 1 THEN "wait" ELSE "none"]
    /\ manpc = [m \in ManIds |-> "none"]
    /\ held = {}
    /\ nextSid = 2
    /\ resp = [op |-> "start", status |-> 200, body |-> get_session_state(session)]
    /\ lockHist = <<>>
    /\ scen = <<>>

NextLf ==
    \/ \E l \in LfIds : LfIterate(l)
    \/ \E l \in LfIds : LfSshProbe(l)
    \/ \E l \in LfIds : LfSpeedCall(l)
    \/ \E l \in LfIds : LfSpeedLogin(l)
    \/ \E l \in LfIds : LfSpeedStart(l)
    \/ \E l \in LfIds : LfSpeedPoll(l)
    \/ \E l \in LfIds : LfSpeedResume(l)
    \/ \E l \in LfIds : LfUnwind(l)
    \/ end_session

SpecLf == InitLf /\ [][NextLf]_vars

\* ----------------------------- run_all_benchmarks, its probes and the sink
\* Values a measurement can take (a float; 0.0 is a value, not None).
Floats == {0, 12}
OptFloats == {None} \cup {Some(v) : v \in Floats}

\* What ssh_client.execute_command gave run_ssh_ping: None (no output), or
\* text in which each of the two patterns matched or did not; a match of
\* [\d.]+ that float() rejects (such as "1.2.3") raises inside the try.
PingOutputs ==
    {None} \cup {Some([garbled |-> g, rtt |-> r, loss |-> l]) :
                   g \in BOOLEAN, r \in OptFloats, l \in OptFloats}

\* run_ssh_ping: None without output or on an exception, else a PingResult.
run_ssh_ping(output) ==
    IF output = None THEN None
    ELSE IF output[1].garbled THEN None
    ELSE Some([rtt_avg_ms |-> output[1].rtt, packet_loss_pct |-> output[1].loss])

\* What execute_command gave one iperf3 sub-invocation: None, or text that
\* parses as the expected JSON (with bits_per_second, or jitter_ms) or not.
IperfOutputs ==
    {None} \cup {Some([ok |-> FALSE, v |-> 0])} \cup
    {Some([ok |-> TRUE, v |-> v * 1000000]) : v \in Floats}

\* run_ssh_iperf3: one try block around the three parses; any exception
\* returns None; an absent output leaves its field at the default None.
run_ssh_iperf3(upload_output, download_output, jitter_output) ==
    IF \E o \in {upload_output, download_output, jitter_output} : o # None /\ ~o[1].ok
    THEN None
    ELSE Some([upload_mbps |-> IF upload_output = None THEN None
                               ELSE Some(upload_output[1].v \div 1000000),
               download_mbps |-> IF download_output = None THEN None
                                 ELSE Some(download_output[1].v \div 1000000),
               jitter_ms |-> IF jitter_output = None THEN None
                             ELSE Some(jitter_output[1].v)])

\* How run_teltonika_speedtest can end (see SpeedPoll): None, an exception,
\* or a SpeedtestResult, whose two fields are then both set.
SpeedOutcomes ==
    {SpeedOutcome("none"), SpeedOutcome("raised")} \cup
    {speedtest_step3(Some(d), Some(u)) : d \in Floats, u \in Floats}

\* data.model_dump().items() with the None values dropped: point.field(...)
point_fields(data) ==
    [f \in {g \in DOMAIN data : data[g] # None} |-> data[f][1]]

\* Mutant: the point is written even when it has no fields.
write_performance_benchmark_always(points, session_id, iccid, test_type, data) ==
    Append(points, [measurement |-> "performance_benchmarks", session_id |-> session_id,
                    iccid |-> iccid, test_type |-> test_type,
                    fields |-> point_fields(data)])

\* write_performance_benchmark: the points handed to write_api.write afterwards.
write_performance_benchmark(points, session_id, iccid, test_type, data) ==
    LET fields == point_fields(data)
    IN  IF DOMAIN fields # {}
        THEN Append(points, [measurement |-> "performance_benchmarks",
                             session_id |-> session_id, iccid |-> iccid,
                             test_type |-> test_type, fields |-> fields])
        ELSE points

\* run_all_benchmarks() is called: state = get_session_state();
\* if not state.session_id: return None
PipeCall ==
    /\ ppc \in {"idle", "done"}
    /\ probes' = <<>>
    /\ outputs' = <<>>
    /\ sink' = <<>>
    /\ pfailed' = FALSE
    /\ ppc' = IF get_session_state(session).session_id = None THEN "done" ELSE "ping"
    /\ UNCHANGED <<nonPipeVars, session>>

\* A variant in which a probe that returned None ends the run.
PipeProbeDone_stop_on_failure(test_type, data, next) ==
    LET state == get_session_state(session)
        written == IF data = None THEN sink
                   ELSE write_performance_benchmark(sink, state.session_id[1],
                                                    state.iccid[1], test_type, data[1])
    IN  /\ probes' = Append(probes, [test_type |-> test_type, data |-> data])
        /\ sink' = written
        /\ \E write \in {"ok", "raise"} :
              /\ write = "raise" => written # sink
              /\ pfailed' = (write = "raise")
              /\ ppc' = IF write = "raise" \/ data = None THEN "done" ELSE next
        /\ UNCHANGED <<nonPipeVars, session>>

\* One probe returned `data` (None or a result object, which is truthy):
\*   if data: await db_client.write_performance_benchmark(...)
\* and the write of a point may raise, which ends the run.
PipeProbeDone(test_type, data, next) ==
    LET state == get_session_state(session)
        written == IF data = None THEN sink
                   ELSE write_performance_benchmark(sink, state.session_id[1],
                                                    state.iccid[1], test_type, data[1])
    IN  /\ probes' = Append(probes, [test_type |-> test_type, data |-> data])
        /\ sink' = written
        /\ \E write \in {"ok", "raise"} :
              /\ write = "raise" => written # sink
              /\ pfailed' = (write = "raise")
              /\ ppc' = IF write = "raise" THEN "done" ELSE next
        /\ UNCHANGED <<nonPipeVars, session>>

PipePing ==
    /\ ppc = "ping"
    /\ \E output \in PingOutputs : PipeProbeDone("ping", run_ssh_ping(output), "iperf3")
    /\ outputs' = outputs

PipeIperf3 ==
    /\ ppc = "iperf3"
    /\ \E up \in IperfOutputs, down \in IperfOutputs, jit \in IperfOutputs :
          /\ PipeProbeDone("iperf3", run_ssh_iperf3(up, down, jit), "speedtest")
          /\ outputs' = <<up, down, jit>>

PipeSpeedtest ==
    /\ ppc = "speedtest"
    /\ \E outcome \in SpeedOutcomes :
          IF outcome.kind = "raised"
          THEN /\ ppc' = "done"
               /\ pfailed' = TRUE
               /\ UNCHANGED <<nonPipeVars, session, probes, sink>>
          ELSE PipeProbeDone("speedtest",
                             IF outcome.kind = "none" THEN None
                             ELSE Some([upload_mbps |-> outcome.upload_mbps,
                                        download_mbps |-> outcome.download_mbps]),
                             "done")
    /\ outputs' = outputs

InitPipe ==
    /\ ModemIdle
    /\ phase = "serving"
    /\ session \in {{}} \cup {{Row(sid, ICCID, FALSE, TRUE)} : sid \in SessionIds}
    /\ background_tasks = NoTasks
    /\ hfpc = "none"
    /\ lfpc = [l \in LfIds |-> "none"]
    /\ manpc = [m \in ManIds |-> "none"]
    /\ held = {}
    /\ nextSid = 1
    /\ resp = [op |-> "none", status |-> 0, body |-> EmptyState]
    /\ lockHist = <<>>
    /\ scen = <<>>

NextPipe ==
    \/ PipeCall
    \/ PipePing
    \/ PipeIperf3
    \/ PipeSpeedtest

SpecPipe == InitPipe /\ [][NextPipe]_vars

\* ------------------------------------------ ssh_client.SSHClientManager
nonSshVars == <<sessionVars, API_TOKEN, modemCallVars, speedVars, pipeVars, exc,
                rejected, issued>>

SshOps == {"connect", "execute", "disconnect"}

\* self._connection and not self._connection.is_closed()
Usable(conn) == conn # None /\ ~conn[1].closed

\* Mutant: the lock never makes a caller wait.
locked_never(l) == FALSE

\* asyncio.Lock.locked()
locked(l) == l # None

\* Callers suspended in `async with self._lock`; a newcomer queues behind them.
Waiting == {c \in Callers : callers[c].pc = "lockwait"}

\* Mutant: a failed command leaves the shared handle as it is.
after_raise_keep(conn) == conn

\* except Exception: self._connection = None  # Assume connection is bad
after_raise(conn) == None

\* connect() has returned to its caller. connect(): done. execute_command():
\*   if not self._connection: return None
\*   result = await self._connection.run(command, ...)
AfterConnect(k, conn) ==
    IF k.op = "connect" THEN [k EXCEPT !.pc = "idle", !.result = "returned"]
    ELSE IF conn = None THEN [k EXCEPT !.pc = "idle", !.result = "no_output"]
    ELSE [k EXCEPT !.pc = "running", !.on = conn[1].id, !.runs = k.runs + 1]

\* connect(), inside the lock, up to its first suspension: return at once when
\* a usable connection exists, else await asyncssh.connect(...).
ConnectLocked(c, k) ==
    IF Usable(connection)
    THEN /\ lock' = None
         /\ callers' = [callers EXCEPT ![c] = AfterConnect(k, connection)]
         /\ UNCHANGED <<connection, opened>>
    ELSE /\ opened < MaxChannels
         /\ lock' = Some(c)
         /\ callers' = [callers EXCEPT ![c] = [k EXCEPT !.pc = "opening"]]
         /\ UNCHANGED <<connection, opened>>

\* disconnect(), inside the lock: close() and await wait_closed() if there is
\* a connection.
DisconnectLocked(c, k) ==
    IF connection # None
    THEN /\ connection' = Some([connection[1] EXCEPT !.closed = TRUE])
         /\ lock' = Some(c)
         /\ callers' = [callers EXCEPT ![c] = [k EXCEPT !.pc = "closing"]]
         /\ opened' = opened
    ELSE /\ lock' = None
         /\ callers' = [callers EXCEPT ![c] = [k EXCEPT !.pc = "idle", !.result = "returned"]]
         /\ UNCHANGED <<connection, opened>>

\* A coroutine calls connect(), execute_command(cmd) or disconnect(): the code
\* up to its first suspension, as it acts on the client.
SshEnter(c, op) ==
    /\ callers[c].pc = "idle"
    /\ LET k == [pc |-> "idle", op |-> op, on |-> 0, runs |-> 0, result |-> "pending"]
       IN  IF op = "execute" /\ Usable(connection)
           THEN /\ callers' = [callers EXCEPT ![c] =
                                 [k EXCEPT !.pc = "running", !.on = connection[1].id,
                                           !.runs = 1]]
                /\ UNCHANGED <<connection, lock, opened>>
           ELSE IF locked(lock) \/ Waiting # {}
           THEN /\ callers' = [callers EXCEPT ![c] = [k EXCEPT !.pc = "lockwait"]]
                /\ UNCHANGED <<connection, lock, opened>>
           ELSE IF op = "disconnect" THEN DisconnectLocked(c, k)
           ELSE ConnectLocked(c, k)

SshCall(c, op) ==
    /\ SshEnter(c, op)
    /\ UNCHANGED nonSshVars

\* The lock was released and this waiter gets it.
SshAcquire(c) ==
    /\ callers[c].pc = "lockwait"
    /\ ~locked(lock)
    /\ IF callers[c].op = "disconnect" THEN DisconnectLocked(c, callers[c])
       ELSE ConnectLocked(c, callers[c])
    /\ UNCHANGED nonSshVars

\* await asyncssh.connect(...) is over: a new channel, or an exception, which
\* connect() logs; the lock is released and connect() returns.
SshOpened(c) ==
    /\ callers[c].pc = "opening"
    /\ \E ok \in BOOLEAN :
          LET conn == IF ok THEN Some([id |-> opened + 1, closed |-> FALSE]) ELSE None
          IN  /\ connection' = conn
              /\ opened' = IF ok THEN opened + 1 ELSE opened
              /\ lock' = None
              /\ callers' = [callers EXCEPT ![c] = AfterConnect(callers[c], conn)]
    /\ UNCHANGED nonSshVars

\* await self._connection.run(command, check=True, timeout=timeout) is over:
\* output, or an exception (exit status, timeout, connection lost).
SshRan(c) ==
    /\ callers[c].pc = "running"
    /\ \E outcome \in {"output", "raise"} :
          IF outcome = "output"
          THEN /\ callers' = [callers EXCEPT ![c].pc = "idle", ![c].result = "output"]
               /\ connection' = connection
          ELSE /\ callers' = [callers EXCEPT ![c].pc = "idle", ![c].result = "no_output"]
               /\ connection' = after_raise(connection)
    /\ UNCHANGED <<lock, opened>>
    /\ UNCHANGED nonSshVars

\* await self._connection.wait_closed() is over: self._connection = None
SshClosed(c) ==
    /\ callers[c].pc = "closing"
    /\ connection' = None
    /\ lock' = None
    /\ callers' = [callers EXCEPT ![c].pc = "idle", ![c].result = "returned"]
    /\ opened' = opened
    /\ UNCHANGED nonSshVars

\* The router, or the network, closes the channel.
ChannelDrops ==
    /\ Usable(connection)
    /\ connection' = Some([connection[1] EXCEPT !.closed = TRUE])
    /\ UNCHANGED <<lock, callers, opened>>
    /\ UNCHANGED nonSshVars

InitSsh ==
    /\ SessionIdle
    /\ ModemIdle

NextSsh ==
    \/ \E c \in Callers, op \in SshOps : SshCall(c, op)
    \/ \E c \in Callers : SshAcquire(c)
    \/ \E c \in Callers : SshOpened(c)
    \/ \E c \in Callers : SshRan(c)
    \/ \E c \in Callers : SshClosed(c)
    \/ ChannelDrops

SpecSsh == InitSsh /\ [][NextSsh]_vars

\* ------------- lifespan and manual benchmark runs on the shared ssh client
\* The coroutines that call the client: the lifespan, and the wrapper of each
\* manual run.
LifespanCaller == CHOOSE c \in Callers : \A d \in Callers : c <= d
RunCaller(m) == LifespanCaller + m

\* run_ssh_ping awaits execute_command once, run_ssh_iperf3 three times.
Commands(stage) == IF stage = "ping" THEN 1 ELSE 3

\* lifespan, before yield: setup_database(), the stale session is ended,
\* `await poller.get_teltonika_token()` (an error status raises and the
\* application does not start), then `await ssh_client.connect()` is entered.
StartupCall ==
    /\ phase = "startup"
    /\ resp' = IF is_session_active(session)
               THEN Response("sm_end", 200, sm_end_session(session).state)
               ELSE resp
    /\ session' = IF is_session_active(session) THEN sm_end_session(session).tbl
                  ELSE session
    /\ \E outcome \in LoginOutcomes, t \in Tokens :
         LET g == get_teltonika_token(API_TOKEN, outcome, t)
         IN  /\ API_TOKEN' = g.token
             /\ exc' = LoginExc(outcome)
             /\ rejected' = Issued(outcome, t)
             /\ IF g.raised
                THEN phase' = "failed" /\ UNCHANGED sshVars
                ELSE phase' = "starting" /\ SshEnter(LifespanCaller, "connect")
    /\ UNCHANGED <<background_tasks, hfpc, lfpc, manpc, held, nextSid, lockHist, scen>>
    /\ UNCHANGED <<modemCallVars, speedVars, pipeVars, issued>>

\* connect() has returned: the lifespan yields and requests are served.
StartupDone ==
    /\ phase = "starting"
    /\ callers[LifespanCaller].pc = "idle"
    /\ phase' = "serving"
    /\ UNCHANGED <<session, background_tasks, hfpc, lfpc, manpc, held, nextSid, resp,
                   lockHist, scen>>
    /\ UNCHANGED componentVars

\* lifespan, after yield, up to its first suspension: the registered tasks are
\* cancelled, the session is ended, `await ssh_client.disconnect()` is entered.
ShutdownCall ==
    /\ phase = "serving"
    /\ CancelAll
    /\ session' = IF is_session_active(session) THEN sm_end_session(session).tbl
                  ELSE session
    /\ lockHist' = IF is_session_active(session) THEN <<>> ELSE lockHist
    /\ phase' = "stopping"
    /\ SshEnter(LifespanCaller, "disconnect")
    /\ UNCHANGED <<manpc, held, nextSid, resp, scen>>
    /\ UNCHANGED <<API_TOKEN, modemCallVars, speedVars, pipeVars, exc, rejected, issued>>

\* disconnect() has returned to the lifespan, which ends with it.
ShutdownComplete ==
    /\ phase = "stopping"
    /\ callers[LifespanCaller].op = "disconnect"
    /\ callers[LifespanCaller].pc = "idle"

\* A manual run inside run_ssh_ping or run_ssh_iperf3 calls execute_command.
RunExecute(m) ==
    /\ manpc[m] \in {"ping", "iperf3"}
    /\ issued[m] < Commands(manpc[m])
    /\ SshEnter(RunCaller(m), "execute")
    /\ issued' = [issued EXCEPT ![m] = issued[m] + 1]
    /\ UNCHANGED <<sessionVars, API_TOKEN, modemCallVars, speedVars, pipeVars, exc,
                   rejected>>

\* The last execute_command of the probe has returned: the probe returns, its
\* result is written (the write may raise, which ends the run through the
\* finally clause of the wrapper), and the next probe begins.
RunProbeDone(m) ==
    /\ manpc[m] \in {"ping", "iperf3"}
    /\ issued[m] = Commands(manpc[m])
    /\ callers[RunCaller(m)].pc = "idle"
    /\ issued' = [issued EXCEPT ![m] = 0]
    /\ \E outcome \in {"ok", "raise"} :
         IF outcome = "ok"
         THEN /\ manpc' = [manpc EXCEPT ![m] = NextStage(manpc[m])]
              /\ UNCHANGED <<session, held, lockHist>>
         ELSE /\ Release(ManTask(m))
              /\ manpc' = [manpc EXCEPT ![m] = "none"]
    /\ UNCHANGED <<phase, background_tasks, hfpc, lfpc, nextSid, resp, scen>>
    /\ UNCHANGED <<API_TOKEN, modemCallVars, speedVars, pipeVars, exc, rejected, sshVars>>

\* run_teltonika_speedtest of a manual run, which does not use the ssh client.
RunSpeedtest(m) == manpc[m] = "speedtest" /\ ManProbe(m)

InitShutdown ==
    /\ SessionIdle
    /\ ModemIdle

\* Sessions without auto_benchmarks, so that the manual runs are the only
\* users of the ssh client besides the lifespan.
NextShutdown ==
    \/ StartupCall
    \/ StartupDone
    \/ start_session(FALSE)
    \/ end_session
    \/ trigger_manual_benchmarks
    \/ HfIterate
    \/ HfFetch
    \/ \E m \in ManIds : ManStart(m)
    \/ \E m \in ManIds : RunExecute(m)
    \/ \E m \in ManIds : RunProbeDone(m)
    \/ \E m \in ManIds : RunSpeedtest(m)
    \/ ShutdownCall
    \/ \E c \in Callers : SshAcquire(c)
    \/ \E c \in Callers : SshOpened(c)
    \/ \E c \in Callers : SshRan(c)
    \/ \E c \in Callers : SshClosed(c)
    \/ ChannelDrops

SpecShutdown == InitShutdown /\ [][NextShutdown]_vars

\* ===================================================================== claims

\* C1: for every order of start and end calls (handlers, direct callers of the
\* store, startup and shutdown) the session table holds at most one record.
C1_AtMostOneSession == Cardinality(session) <= 1

\* A start was rejected while a record existed.
C1_Witness ==
    /\ Cardinality(session) = 1
    /\ resp.op \in {"start", "sm_start"}
    /\ resp.status = 409

\* The benchmark suites (run_all_benchmarks calls) that are between their first
\* and their last probe.
InFlight ==
    {LfTask(l) : l \in {x \in LfIds : lfpc[x] \in Stages}} \cup
    {ManTask(m) : m \in {x \in ManIds : manpc[x] \in Stages}}

\* C2: at most one benchmark suite is in flight at any time.
C2_OneSuiteInFlight == Cardinality(InFlight) <= 1

StateOf(sid, ic, ab, bip) ==
    [session_id |-> Some(sid), iccid |-> Some(ic),
     benchmark_in_progress |-> Some(bip), auto_benchmarks |-> Some(ab)]

C3_StartPost(sid, ab) ==
    IF session # {}
    THEN /\ resp'.status = 409
         /\ session' = session
    ELSE /\ resp'.status = 200
         /\ get_session_state(session') = StateOf(sid, ICCID, ab, FALSE)
         /\ session' = {Row(sid, ICCID, ab, FALSE)}

C4_EndPost ==
    IF session = {}
    THEN /\ resp'.status = 404
         /\ UNCHANGED <<session, background_tasks, hfpc, lfpc, manpc, held, nextSid>>
    ELSE /\ resp'.status = 200
         /\ \E r \in session :
               resp'.body = StateOf(r.session_id, r.iccid, r.auto_benchmarks,
                                    r.benchmark_in_progress)
         /\ get_session_state(session') = EmptyState

\* start(A), start(B), end, end: Ok, Conflict, Ok returning A's record, NotFound.
C4_Scenario ==
    /\ Len(scen) >= 1 => scen[1].status = 200 /\ scen[1].sid # None
    /\ Len(scen) >= 2 => scen[2].status = 409
    /\ Len(scen) >= 3 => scen[3].status = 200 /\ scen[3].sid = scen[1].sid
    /\ Len(scen) >= 4 => scen[4].status = 404

\* C4: end without a record answers 404 and changes nothing; end with a record
\* succeeds, returns the record as it was just before the deletion, and state()
\* is Empty afterwards.
C4_EndReturnsPriorRecord ==
    /\ [][end_session => C4_EndPost]_vars
    /\ []C4_Scenario

\* The four calls of the scenario were made in a row.
C4_Witness == Len(scen) = 4

Acquires == IF lockHist # <<>> /\ lockHist[1] = Released THEN Tail(lockHist) ELSE lockHist

\* C5: of two acquire calls made while a session is active and the lock is free
\* exactly one returns true; after a release the next acquire returns true.
C5_LockMutualExclusion ==
    /\ Len(Acquires) >= 1 => Acquires[1].ret
    /\ Len(Acquires) >= 2 => ~Acquires[2].ret

\* After a release, the loop and the manual trigger both tried: one won.
C5_Witness ==
    /\ Len(lockHist) = 3
    /\ lockHist[1] = Released
    /\ {lockHist[2].by, lockHist[3].by} = {"lf", "manual"}

Runs == {LfTask(l) : l \in LfIds} \cup {ManTask(m) : m \in ManIds}

\* C8: every successful acquisition of the benchmark lock, by the loop or by
\* the manual trigger, is eventually followed by the release call of that run:
\* after normal completion, after an exception, after cancellation.
C8_LockEventuallyReleased == \A t \in Runs : (t \in held) ~> (t \notin held)

\* A loop task whose pipeline raised has ended and has made its release call.
C8_Witness == \E l \in LfIds : lfpc[l] = "failed" /\ LfTask(l) \notin held

C10_TriggerPost ==
    IF session = {}
    THEN /\ resp'.status = 404
         /\ UNCHANGED <<session, manpc, lfpc, held>>
    ELSE IF \E r \in session : r.benchmark_in_progress
    THEN /\ resp'.status = 409
         /\ UNCHANGED <<session, manpc, lfpc, held>>
    ELSE /\ resp'.status = 202
         /\ session' = {[r EXCEPT !.benchmark_in_progress = TRUE] : r \in session}
         /\ \E m \in ManIds : /\ manpc[m] = "none"
                              /\ manpc' = [manpc EXCEPT ![m] = "queued"]
         /\ lfpc' = lfpc

\* C10: the manual trigger answers 404 without a session and 409 when the lock
\* is held, starting no run and leaving the record alone; otherwise it takes
\* the lock and starts exactly one run.
C10_ManualTrigger == [][trigger_manual_benchmarks => C10_TriggerPost]_vars

\* The trigger was refused with 409 while the loop's suite was in flight.
C10_Witness ==
    /\ resp.op = "trigger"
    /\ resp.status = 409
    /\ \E l \in LfIds : lfpc[l] \in Stages

\* C6: one get_modem_status() call issues at most two requests and performs at
\* most one re-login: a 401 followed by success means one re-login and one
\* retry; a second 401 ends the call with no data.
C6_RetryBound ==
    /\ requests <= 2
    /\ relogins <= 1
    /\ (mpc = "done" /\ Len(answers) = 2 /\ answers[1].answer = "401"
           /\ answers[2].answer = "ok") => (relogins = 1 /\ requests = 2)
    /\ (Len(answers) >= 2 /\ answers[1].answer = "401" /\ answers[2].answer = "401")
          => (mpc = "done" /\ mresult = "none")

\* C7: the poll loop ends after at most 120 status polls, and when the budget
\* runs out without the status reaching NOT_RUNNING or FINISHED the probe
\* hands back no result (an exception is read here as "no result" too).
C7_PollBudget ==
    /\ polls <= PollBudget
    /\ (spc = "done" /\ exhausted) => sresult.kind # "result"

AllNull(data) == \A f \in DOMAIN data : data[f] = None

PointsOf(test_type) == {j \in DOMAIN sink : sink[j].test_type = test_type}

\* C9: a probe result whose fields are all null is never forwarded to the
\* sink; a result with a non-null field is forwarded exactly once, and the
\* point carries exactly its non-null fields with their values.
C9_ForwardNonNull ==
    \A i \in DOMAIN probes :
       LET p == probes[i]
       IN  IF p.data = None \/ AllNull(p.data[1])
           THEN PointsOf(p.test_type) = {}
           ELSE /\ Cardinality(PointsOf(p.test_type)) = 1
                /\ \A j \in PointsOf(p.test_type) :
                      /\ DOMAIN sink[j].fields = {f \in DOMAIN p.data[1] : p.data[1][f] # None}
                      /\ \A f \in DOMAIN sink[j].fields :
                            p.data[1][f] = Some(sink[j].fields[f])

\* One run produced an all-null ping result, which was dropped, and an iperf3
\* result with only upload_mbps set, which was forwarded with that one field.
C9_Witness ==
    /\ Len(probes) >= 2
    /\ probes[1].data # None
    /\ AllNull(probes[1].data[1])
    /\ probes[2].data = Some([upload_mbps |-> Some(12), download_mbps |-> None,
                              jitter_ms |-> None])
    /\ Len(sink) = 1
    /\ sink[1].test_type = "iperf3"
    /\ DOMAIN sink[1].fields = {"upload_mbps"}

C11_StartupPost ==
    /\ session' = {}
    /\ get_session_state(session') = EmptyState
    /\ background_tasks' = NoTasks
    /\ hfpc' = "none"
    /\ \A l \in LfIds : lfpc'[l] = "none"

\* C11: whatever record a previous process left behind (benchmark_in_progress
\* true or false), startup deletes it before any request is served: state() is
\* Empty after startup and no background loop is registered or running.
C11_StaleRecordCleared ==
    /\ [][Startup => C11_StartupPost]_vars
    /\ [](phase = "startup" => resp.op = "none" /\ background_tasks = NoTasks)

\* Startup found a stale record with benchmark_in_progress = true, ended it
\* and left the store empty.
C11_Witness ==
    /\ phase = "serving"
    /\ session = {}
    /\ background_tasks = NoTasks
    /\ resp.op = "sm_end"
    /\ resp.body.session_id = Some(StaleId)
    /\ resp.body.benchmark_in_progress = Some(TRUE)

Registered(reg, name) == name \in DOMAIN reg

C12_StartPost(ab) ==
    IF session # {}
    THEN /\ resp'.status = 409
         /\ UNCHANGED <<background_tasks, hfpc, lfpc>>
    ELSE /\ resp'.status = 200
         /\ Registered(background_tasks', "high_frequency_task")
         /\ background_tasks'["high_frequency_task"] = HfTask
         /\ hfpc' = "wait"
         /\ Registered(background_tasks', "low_frequency_task") <=> ab
         /\ IF ab
            THEN \E l \in LfIds :
                    /\ background_tasks'["low_frequency_task"] = LfTask(l)
                    /\ lfpc[l] \in Ended
                    /\ lfpc' = [lfpc EXCEPT ![l] = "wait"]
            ELSE lfpc' = lfpc

\* C12: a successful start registers and launches the high-frequency loop, and
\* the low-frequency loop if and only if auto_benchmarks was requested; a start
\* answered 409 registers and launches nothing.
C12_StartLaunchesLoops ==
    [][\A ab \in BOOLEAN : start_session(ab) => C12_StartPost(ab)]_vars

\* A session was started without auto_benchmarks: only the high-frequency
\* loop is registered, and it is waiting for its first turn.
C12_Witness ==
    /\ resp.op = "start"
    /\ resp.status = 200
    /\ resp.body.auto_benchmarks = Some(FALSE)
    /\ DOMAIN background_tasks = {"high_frequency_task"}
    /\ hfpc = "wait"
    /\ \A l \in LfIds : lfpc[l] \in Ended

\* Positions of a loop task that has not been cancelled and has not ended.
Live == {"wait", "fetch"} \cup Stages

IsRegistered(task) == \E n \in DOMAIN background_tasks : background_tasks[n] = task

C13_CancelPost ==
    /\ background_tasks' = NoTasks
    /\ IsRegistered(HfTask) => hfpc' \notin Live
    /\ \A l \in LfIds : IsRegistered(LfTask(l)) => lfpc'[l] \notin Live
    /\ background_tasks = NoTasks => UNCHANGED <<hfpc, lfpc, manpc>>
    /\ \A l \in LfIds : lfpc[l] \notin Live => lfpc'[l] = lfpc[l]
    /\ hfpc \notin Live => hfpc' = hfpc

\* C13: session end and shutdown each cancel every registered task and leave
\* the registry empty; cancelling again, or with an empty registry, changes no
\* task and fails with no error (end answers 200, shutdown completes).
C13_CancelAllIdempotent ==
    [][ /\ (end_session /\ session # {}) => (C13_CancelPost /\ resp'.status = 200)
        /\ Shutdown => (C13_CancelPost /\ phase' = "stopped") ]_vars

\* The session was ended, which cancelled the loops, and then the process shut
\* down, cancelling once more with the registry already empty.
C13_Witness ==
    /\ phase = "stopped"
    /\ resp.op = "end"
    /\ resp.status = 200
    /\ hfpc = "cancelled"
    /\ \E l \in LfIds : lfpc[l] = "cancelled"
    /\ background_tasks = NoTasks

\* C14: while the process serves requests, a running high-frequency loop is
\* registered if and only if a session record exists, and a low-frequency loop
\* is registered only if the record has auto_benchmarks = true.
C14_LoopsBoundToSession ==
    phase = "serving" =>
       /\ (IsRegistered(HfTask) /\ hfpc \in Live) <=> (session # {})
       /\ \A l \in LfIds : IsRegistered(LfTask(l)) => \E r \in session : r.auto_benchmarks

\* C15: the high-frequency loop is never ended by a failed fetch (transport
\* error, error status, 401, failed re-login, unparsable body): such an
\* iteration is skipped; a loop task that died of an exception had a fetch
\* that returned data.
C15_FetchFailureSkipped == hfpc = "failed" => mresult = "data"

\* C16: a transport error (timeout, connection refused) in the speed test,
\* at its start request or at a status poll, does not end the low-frequency
\* loop: the pipeline run ends and the loop goes on to its pacing delay.
C16_TransportErrorSkipped ==
    [][\A l \in LfIds :
          (LfSpeedResume(l) /\ exc = Some("RequestError")) => lfpc'[l] = "wait"]_vars

\* C19: a login made while no token is stored raises nothing to its caller,
\* whatever the router does (token, no token, transport failure, error status).
C19_LoginNeverRaises == [][ModemLogin => (exc' = None /\ mresult' # "raised")]_vars

\* C20: a token the router has answered 401 to is not attached to any later
\* request, unless a later successful login has issued that token again.
C20_RejectedTokenNotReused == [][ModemRequest => API_TOKEN[1] \notin rejected]_vars

Opening == {c \in Callers : callers[c].pc = "opening"}

\* C17: at most one channel-open attempt is in progress at any time, and a
\* caller of connect (directly or through execute_command) starts one only
\* when the handle is unset or its connection is closed.
C17_NoDuplicateChannels ==
    /\ [](Cardinality(Opening) <= 1)
    /\ [][\A c \in Callers :
             (callers[c].pc # "opening" /\ callers'[c].pc = "opening")
                => ~Usable(connection)]_vars

\* One caller is opening the channel while another, which also found no
\* connection, waits for the lock.
C17_Witness ==
    \E c \in Callers, d \in Callers :
       /\ callers[c].pc = "opening"
       /\ callers[d].pc = "lockwait"
       /\ callers[d].op = "execute"

\* C18: when a command raises, execute_command returns no output, discards
\* the shared handle and does not run the command again; a command is only
\* ever run on the connection the handle holds at that moment, so the next
\* call has to establish one first; when establishing it fails, connect
\* leaves the handle unset and execute_command returns no output without
\* running its command.
C18_FailureDiscardsHandle ==
    [][\A c \in Callers :
          /\ (callers[c].pc = "running" /\ callers'[c].result = "no_output")
                => /\ connection' = None
                   /\ callers'[c].pc = "idle"
                   /\ callers'[c].runs = 1
          /\ (callers[c].pc # "running" /\ callers'[c].pc = "running")
                => /\ Usable(connection')
                   /\ callers'[c].on = connection'[1].id
                   /\ connection = None => callers[c].pc = "opening"
          /\ (callers[c].pc = "opening" /\ callers'[c].pc = "idle" /\ connection' = None)
                => /\ callers'[c].runs = 0
                   /\ callers'[c].result =
                         (IF callers[c].op = "connect" THEN "returned" ELSE "no_output")
      ]_vars

\* A command failed on the first channel; a later call has established the
\* second channel and is running its command there.
C18_Witness ==
    \E c \in Callers, d \in Callers :
       /\ callers[d].result = "no_output"
       /\ callers[d].on = 1
       /\ callers[d].runs = 1
       /\ callers[c].pc = "running"
       /\ callers[c].on = 2
       /\ connection = Some([id |-> 2, closed |-> FALSE])

C22_CancelOnlyAtBoundary ==
    [][/\ hfpc = "fetch" => hfpc' # "cancelled"
       /\ \A l \in LfIds : lfpc[l] \in Stages => lfpc'[l] # "unwind"]_vars

\* ---------------------------------------------------------------- claim C23
\* C23: a pass of the low-frequency loop that finds benchmark_in_progress set
\* starts no pipeline (the loop is at its pacing delay afterwards, holding
\* nothing), and leaves the session record, the lock included, and the set of
\* runs holding the lock as they were.
C23_SkipPost(l) ==
    (/\ LfIterate(l)
     /\ \E r \in session : r.id = 1 /\ r.benchmark_in_progress) =>
        /\ lfpc'[l] = "wait"
        /\ LfTask(l) \notin held'
        /\ held' = held
        /\ session' = session
        /\ \E r \in session' : r.id = 1 /\ r.benchmark_in_progress

C23_SkipLeavesLock == [][\A l \in LfIds : C23_SkipPost(l)]_vars

\* The loop has just been refused the lock that a manual run holds, and is
\* back at its pacing delay while that run goes on.
C23_Witness ==
    /\ Len(lockHist) >= 2
    /\ lockHist[Len(lockHist)] = [by |-> "lf", ret |-> FALSE]
    /\ \E l \in LfIds : lfpc[l] = "wait" /\ IsRegistered(LfTask(l))
    /\ \E m \in ManIds : manpc[m] \in Stages /\ ManTask(m) \in held
    /\ \E r \in session : r.benchmark_in_progress

\* ---------------------------------------------------------------- claim C24
\* C24: the probes of one run are invoked in the order ping, iperf3,
\* speedtest, each after the one before it has returned; and when the ping
\* probe or the iperf3 probe returns None (no output, command error, parse
\* error), the run goes on to the next probe.
C24_Order ==
    /\ Len(probes) <= 3
    /\ \A i \in DOMAIN probes : probes[i].test_type = <<"ping", "iperf3", "speedtest">>[i]
    /\ ppc = "ping" => probes = <<>>
    /\ ppc = "iperf3" => Len(probes) = 1
    /\ ppc = "speedtest" => Len(probes) = 2

C24_FailureGoesOn ==
    (/\ ppc \in {"ping", "iperf3"}
     /\ Len(probes') = Len(probes) + 1
     /\ probes'[Len(probes')].data = None) => ppc' = NextStage(ppc)

C25_Field(o, field, value) ==
    (o # None /\ o[1].ok) =>
        /\ probes[2].data # None
        /\ probes[2].data[1][field] = Some(value)

C25_SubInvocationsIndependent ==
    (Len(probes) >= 2 /\ Len(outputs) = 3) =>
        /\ C25_Field(outputs[1], "upload_mbps", outputs[1][1].v \div 1000000)
        /\ C25_Field(outputs[2], "download_mbps", outputs[2][1].v \div 1000000)
        /\ C25_Field(outputs[3], "jitter_ms", outputs[3][1].v)

\* ---------------------------------------------------------------- claim C26
\* C26: when the FINISHED payload of a speed test has no avgDownloadSpeed
\* (avgUploadSpeed) and a value was retained from the TESTING_DOWNLOAD
\* (TESTING_UPLOAD) polls before it, the returned result carries that retained
\* value in its download (upload) field.
C26_Retained(field, retained, returned) ==
    (field = None /\ retained # Unbound) => returned = retained

C26_FinishedKeepsRetained ==
    [][(SpeedPoll /\ finished = None /\ finished' # None) =>
          /\ sresult'.kind = "result"
          /\ C26_Retained(finished'[1].avgDownloadSpeed, download_mbps,
                          sresult'.download_mbps)
          /\ C26_Retained(finished'[1].avgUploadSpeed, upload_mbps,
                          sresult'.upload_mbps)]_vars

\* ---------------------------------------------------------------- claim C27
\* C27: a call of release_benchmark_lock leaves every record it found with
\* benchmark_in_progress false and its other fields as they were, whether or
\* not the flag was set; it creates no record when there is none; a record
\* whose flag was already clear is left as it is; and calling it again on
\* the result changes nothing.
C27_ReleasePost ==
    StoreRelease =>
        /\ session = {} => session' = {}
        /\ Cardinality(session') = Cardinality(session)
        /\ \A r \in session :
              [r EXCEPT !.benchmark_in_progress = FALSE] \in session'
        /\ \A r \in session' : ~r.benchmark_in_progress
        /\ (\A r \in session : ~r.benchmark_in_progress) => session' = session
        /\ release_benchmark_lock(session') = session'

C27_ReleaseIdempotent == [][C27_ReleasePost]_vars

\* A release has been called on an existing record: the lock is free and
\* the record still carries its session, its ICCID and its auto_benchmarks.
C27_Witness ==
    /\ lockHist = <<Released>>
    /\ \E r \in session :
          /\ ~r.benchmark_in_progress
          /\ r.auto_benchmarks
          /\ r.iccid = ICCID
          /\ r.session_id \in SessionIds

\* ---------------------------------------------------------------- claim C29
\* C29: while a run of the current session's low-frequency loop that took the
\* lock is in flight, benchmark_in_progress stays set: nothing but that run's
\* own release clears it, in particular not the end of a run that was started
\* in an earlier session.
C29_ReleasedOnlyByOwner ==
    \A l \in LfIds :
       (IsRegistered(LfTask(l)) /\ lfpc[l] \in Stages /\ LfTask(l) \in held) =>
           \E r \in session : r.id = 1 /\ r.benchmark_in_progress

\* ---------------------------------------------------------------- claim C30
\* C30: when a command fails, and the shared handle by then refers to a
\* connection other than the one the command ran on (a reconnect has happened
\* since), the handle is left as it is.
C30_Failed(c) ==
    /\ callers[c].pc = "running"
    /\ callers'[c].pc = "idle"
    /\ callers'[c].result = "no_output"

C30_FailureKeepsNewerConnection ==
    [][\A c \in Callers :
          (C30_Failed(c) /\ connection # None /\ connection[1].id # callers[c].on)
              => connection' = connection]_vars

\* ---------------------------------------------------------------- claim C28
\* C28: once the lifespan's shutdown has completed (disconnect() has returned)
\* the task registry is empty, no session record exists and the ssh client
\* holds no open connection, also when a manual benchmark run was executing
\* remote commands as the shutdown began.
C28_CleanAfterShutdown ==
    ShutdownComplete =>
        /\ background_tasks = NoTasks
        /\ session = {}
        /\ ~Usable(connection)

\* ---------------------------------------------------------------- claim C31
\* C31: acquire_benchmark_lock called while no session record exists returns
\* False, writes no record and leaves the store empty; hence an acquire that
\* returns True found a session record, and that record is the one that
\* carries the lock afterwards.
C31_AcquirePost ==
    StoreAcquire =>
        /\ session = {} =>
              /\ session' = {}
              /\ resp'.op = "sm_acquire:False"
              /\ resp'.body = EmptyState
        /\ resp'.op = "sm_acquire:True" =>
              /\ is_session_active(session)
              /\ Cardinality(session') = Cardinality(session)
              /\ \E r \in session' : r.id = 1 /\ r.benchmark_in_progress
        /\ resp'.op \in {"sm_acquire:True", "sm_acquire:False"}

C31_NoLockWithoutSession == [][C31_AcquirePost]_vars

\* An acquire has been made on the empty store: it returned False and the
\* store is still empty.
C31_Witness ==
    /\ resp.op = "sm_acquire:False"
    /\ resp.body = EmptyState
    /\ session = {}
    /\ phase = "serving"

====
